---- MODULE Spec2Model ----
(***************************************************************************)
(* Model of hmdc/outagenotifier: the status classifier                     *)
(* (OutageParser.sort_outages_by_status and its two copies), the cache     *)
(* refresh cycle (HMDCOutages.isFeedUpdated, as one call and statement by  *)
(* statement beside a reader), the widget's poll timer                     *)
(* (HMDCNotifications.checkForUpdates, beside the cron job and alone on a  *)
(* snapshot at rest), the date parser (HMDCOutages.parseDateHTML), the     *)
(* RSS path of HMDCOutages.createCache, and one outage classified again    *)
(* and again as time passes.                                               *)
(***************************************************************************)
EXTENDS Integers, Sequences, FiniteSets, TLC

\* ------------------------------------------------------------------ bounds
\* Largest unix timestamp of the model (timestamps are 1..MaxTime, 0 is the
\* "no end time" sentinel).
MaxTime == 2
\* Largest value of the scope_ahead / scope_past settings.
MaxScope == 2
\* Longest list of outages handed to the classifier.
MaxLen == 2

\* ------------------------------------------------------------------ records
Titles == {"t"}
Links == {"l"}
ModTimes == {0}

\* An outage as parse_xml builds it (six fields).
Outage == [end_time : 0..MaxTime, link : Links, mod_time : ModTimes,
           resolved : BOOLEAN, start_time : 1..MaxTime, title : Titles]

\* All lists of at most n outages.
OutageLists(n) == UNION {[1..k -> Outage] : k \in 0..n}

\* sorted_outages = {"completed": [], "scheduled": [], "active": []}
EmptyBuckets == [completed |-> <<>>, scheduled |-> <<>>, active |-> <<>>]

VARIABLES
  outages,        \* the list handed to sort_outages_by_status
  clock,          \* what time.time() returns
  scope_ahead,    \* settings['scope_ahead']
  scope_past,     \* settings['scope_past']
  pc,             \* "idle" before the first call, "called" after a call
  now,            \* the clock reading taken by the latest call
  sorted_outages, \* the buckets the latest call returned (empty if it raised)
  raised_at,      \* 0, or the value of counter when the latest call raised
  prev,           \* the call before the latest: its now and its outcome
  cache_file,     \* DIR/OutagesCache.ics
  temp_file,      \* DIR/OutagesTemp.xml
  parsed_file,    \* DIR/OutagesParsed.xml, the accepted snapshot
  cycle,          \* how the latest isFeedUpdated ended: none, returned, raised
  feedUpdated,    \* what the latest isFeedUpdated that returned has returned
  fu_outages,     \* the local `outages` of the latest isFeedUpdated
  fetch_result,   \* what urlopen did in the latest isFeedUpdated
  first_run,      \* the latest isFeedUpdated found no parsed file
  at,             \* the statement of isFeedUpdated the cron process is at
  pending,        \* what the request sent by urlopen will meet
  open_file,      \* the path open for writing, its bytes not all written
  snapshot_before, \* the parsed file as the running cycle found it
  seen,           \* what the latest reader of the parsed file has opened
  Outages_bound,  \* the name `Outages` resolves in hmdcnotifications.py
  timers,         \* gobject timeout sources armed with checkForUpdates
  lastUpdate,     \* HMDCNotifications.lastUpdate
  widget,         \* how the latest checkForUpdates ended: none, done, raised
  notified,       \* the buckets the latest checkForUpdates popped up
  shown,          \* the buckets handed to the latest displayOutages
  html,           \* the dates written in the description handed to parseDateHTML
  year_now,       \* datetime.datetime.now().year
  date_pc,        \* "idle" before parseDateHTML is called, "called" after
  dateDict,       \* what parseDateHTML returned, or the exception it raised
  rss_cache_file, \* DIR/OutagesCache.xml, the cache createCache( True ) selects
  parser_applied  \* the parser the latest cycle ran on its cache, if any

classifierVars == <<outages, scope_ahead, scope_past, pc, now, sorted_outages,
                    raised_at, prev>>
cacheVars == <<cache_file, temp_file, parsed_file, cycle, feedUpdated,
               fu_outages, fetch_result, first_run>>
stepVars == <<at, pending, open_file, snapshot_before, seen>>
widgetVars == <<Outages_bound, timers, lastUpdate, widget, notified, shown>>
dateVars == <<html, year_now, date_pc, dateDict>>
rssVars == <<rss_cache_file, parser_applied>>
vars == <<classifierVars, clock, cacheVars, stepVars, widgetVars, dateVars,
          rssVars>>

\* A path of DIR: absent, or a regular file with its bytes and its mtime.
NoFile == [exists |-> FALSE, content |-> <<>>, mtime |-> 0]
File(content, mtime) == [exists |-> TRUE, content |-> content, mtime |-> mtime]

\* No reader has opened the parsed file yet.
NotRead == [at |-> "none", file |-> NoFile, partial |-> FALSE]

\* No request is under way.
NoRequest == [error |-> "none", body |-> <<>>]

\* No cacheOutages.py process is running and no reader has read.
StepsAtRest ==
  /\ at = "idle"
  /\ pending = NoRequest
  /\ open_file = "none"
  /\ snapshot_before = NoFile
  /\ seen = NotRead

\* The text of a timestamp: str(n), or the padded zero "0" * 10.
str(n) == [val |-> n, padded |-> FALSE]
zeros == [val |-> 0, padded |-> TRUE]

\* parseDateHTML has not been called.
NoDates == [error |-> "none", starttime |-> zeros, endtime |-> zeros]
DatesAtRest ==
  /\ html = <<>>
  /\ year_now = 0
  /\ date_pc = "idle"
  /\ dateDict = NoDates

\* outageNotifierGUI.py has not been started.
RssAtRest == rss_cache_file = NoFile /\ parser_applied = "none"

WidgetAtRest ==
  /\ Outages_bound = FALSE
  /\ timers = 0
  /\ lastUpdate = 0
  /\ widget = "none"
  /\ notified = EmptyBuckets
  /\ shown = EmptyBuckets

\* ------------------------------------------------------------------ classifier
abs(x) == IF x < 0 THEN -x ELSE x

seconds_until_start(outage, t) == outage.start_time - t
seconds_until_end(outage, t) == outage.end_time - t

has_started(outage, t) == seconds_until_start(outage, t) <= 0
has_ended(outage, t) == seconds_until_end(outage, t) <= 0
has_end_time(outage) == outage.end_time # 0

\* Variant: the test made without has_end_time.
integrity_error_m(outage, t) ==
  has_ended(outage, t) /\ ~has_started(outage, t)
\* if has_end_time and (has_ended and not has_started): raise Exception(...)
integrity_error(outage, t) ==
  has_end_time(outage) /\ (has_ended(outage, t) /\ ~has_started(outage, t))

within_future_scope(outage, t, ahead) == seconds_until_start(outage, t) < ahead
within_past_scope(outage, t, past) == abs(seconds_until_end(outage, t)) < past

\* The three tests of the if / elif / elif chain, each as written.
active_rule(outage, t) ==
  (has_started(outage, t) /\ (~has_ended(outage, t) \/ ~has_end_time(outage)))
    /\ ~outage.resolved

\* Variant: the test made without "or resolved".
completed_rule_m(outage, t, past) ==
  (has_started(outage, t) /\ has_ended(outage, t))
    /\ within_past_scope(outage, t, past)
completed_rule(outage, t, past) ==
  ((has_started(outage, t) /\ has_ended(outage, t)) \/ outage.resolved)
    /\ within_past_scope(outage, t, past)

scheduled_rule(outage, t, ahead) ==
  (~has_started(outage, t) /\ ~outage.resolved)
    /\ within_future_scope(outage, t, ahead)

\* Variant: the completed test made before the active test.
append_m_order(acc, outage, t, ahead, past) ==
  IF completed_rule(outage, t, past)
    THEN [acc EXCEPT !.completed = Append(@, outage)]
  ELSE IF active_rule(outage, t)
    THEN [acc EXCEPT !.active = Append(@, outage)]
  ELSE IF scheduled_rule(outage, t, ahead)
    THEN [acc EXCEPT !.scheduled = Append(@, outage)]
  ELSE acc
\* Variant: the completed test written with "if" instead of "elif".
append_m_if(acc, outage, t, ahead, past) ==
  LET a1 == IF active_rule(outage, t)
              THEN [acc EXCEPT !.active = Append(@, outage)] ELSE acc
  IN IF completed_rule(outage, t, past)
       THEN [a1 EXCEPT !.completed = Append(@, outage)]
     ELSE IF ~active_rule(outage, t) /\ scheduled_rule(outage, t, ahead)
       THEN [a1 EXCEPT !.scheduled = Append(@, outage)]
     ELSE a1
\* Variant: insert(0, outage) instead of append(outage).
append_m_front(acc, outage, t, ahead, past) ==
  IF active_rule(outage, t)
    THEN [acc EXCEPT !.active = <<outage>> \o @]
  ELSE IF completed_rule(outage, t, past)
    THEN [acc EXCEPT !.completed = <<outage>> \o @]
  ELSE IF scheduled_rule(outage, t, ahead)
    THEN [acc EXCEPT !.scheduled = <<outage>> \o @]
  ELSE acc
\* One pass of the loop body after the integrity check: the first test that
\* holds appends the outage to its bucket, the else branch only logs.
append(acc, outage, t, ahead, past) ==
  IF active_rule(outage, t)
    THEN [acc EXCEPT !.active = Append(@, outage)]
  ELSE IF completed_rule(outage, t, past)
    THEN [acc EXCEPT !.completed = Append(@, outage)]
  ELSE IF scheduled_rule(outage, t, ahead)
    THEN [acc EXCEPT !.scheduled = Append(@, outage)]
  ELSE acc

\* for outage in outages: ... counter += 1.  The result is what the caller
\* gets: the buckets, or the exception raised at record number `counter`
\* (the local buckets are lost with the frame).
RECURSIVE sort_loop(_, _, _, _, _, _)
sort_loop(list, counter, t, ahead, past, acc) ==
  IF counter > Len(list)
    THEN [raised_at |-> 0, sorted_outages |-> acc]
  ELSE IF integrity_error(list[counter], t)
    THEN [raised_at |-> counter, sorted_outages |-> EmptyBuckets]
  ELSE sort_loop(list, counter + 1, t, ahead, past,
                 append(acc, list[counter], t, ahead, past))

\* Variant: the dictionary of the previous call is used again.
initial_buckets_m(previous) == previous
\* The buckets the loop starts from: a fresh dictionary on every call.
initial_buckets(previous) == EmptyBuckets

\* OutageParser.sort_outages_by_status(outages): the whole call.
sort_outages_by_status ==
  LET t == clock
      r == sort_loop(outages, 1, t, scope_ahead, scope_past,
                     initial_buckets(sorted_outages))
  IN /\ now' = t
     /\ sorted_outages' = r.sorted_outages
     /\ raised_at' = r.raised_at
     /\ pc' = "called"
     /\ prev' = IF pc = "called"
                  THEN [called |-> TRUE, now |-> now,
                        sorted_outages |-> sorted_outages,
                        raised_at |-> raised_at]
                  ELSE prev
     /\ UNCHANGED <<outages, clock, scope_ahead, scope_past, cacheVars,
                    stepVars, widgetVars, dateVars, rssVars>>

NoCall == [called |-> FALSE, now |-> 0, sorted_outages |-> EmptyBuckets,
           raised_at |-> 0]

Init ==
  /\ outages \in OutageLists(MaxLen)
  /\ clock \in 1..MaxTime
  /\ scope_ahead \in 0..MaxScope
  /\ scope_past \in 0..MaxScope
  /\ pc = "idle"
  /\ now = 0
  /\ sorted_outages = EmptyBuckets
  /\ raised_at = 0
  /\ prev = NoCall
  /\ cache_file = NoFile
  /\ temp_file = NoFile
  /\ parsed_file = NoFile
  /\ cycle = "none"
  /\ feedUpdated = FALSE
  /\ fu_outages = <<>>
  /\ fetch_result = "none"
  /\ first_run = FALSE
  /\ StepsAtRest
  /\ RssAtRest
  /\ WidgetAtRest
  /\ DatesAtRest

Next == sort_outages_by_status

Spec == Init /\ [][Next]_vars

\* ------------------------------------------------------------------ cache refresh
\* Longest feed (number of VEVENTs).
MaxFeed == 2

\* A VEVENT of the calendar: DTSTART, DTEND (equal to DTSTART when the event
\* has no end) and whether DESCRIPTION holds RESOLVED_STRING.  Three events
\* are told apart: without an end, with an end, and resolved without an end.
VEvent == {e \in [dtstart : {1}, dtend : {1, 2}, marked : BOOLEAN] :
             ~(e.marked /\ e.dtend = 2)}
Feeds == UNION {[1..k -> VEvent] : k \in 0..MaxFeed}

\* A VEVENT without a DTEND property (dtend 0 stands for the missing
\* property): component.get('DTEND') is None and None.to_ical() raises
\* AttributeError.
BadEvent == [dtstart |-> 1, dtend |-> 0, marked |-> FALSE]
GoodEvent == [dtstart |-> 1, dtend |-> 2, marked |-> FALSE]
malformed(e) == e.dtend = 0

\* Feeds with such an event: alone, and after a well-formed one.
BadFeeds == {<<BadEvent>>, <<GoodEvent, BadEvent>>}

\* Width of a unix timestamp written as text: "0" * 10, and str() of any
\* timestamp from 2001 to 2286.
StampWidth == 10

\* str(True) / str(False)
strBool(b) == IF b THEN "True" ELSE "False"

\* Variant: the endtime is written as computed, equal to the start or not.
icalOutage_m(e) ==
  [endtime   |-> str(e.dtend),
   link      |-> "l",
   modtime   |-> str(0),
   resolved  |-> strBool(e.marked),
   starttime |-> str(e.dtstart),
   title     |-> "t"]
\* The dictionary parseOutagesICAL appends for one VEVENT: every value is
\* text, and an endtime equal to the starttime is zeroed out.
icalOutage(e) ==
  [endtime   |-> IF e.dtend = e.dtstart THEN zeros ELSE str(e.dtend),
   link      |-> "l",
   modtime   |-> str(0),
   resolved  |-> strBool(e.marked),
   starttime |-> str(e.dtstart),
   title     |-> "t"]

\* HMDCOutages.parseOutagesICAL(source): one dictionary per VEVENT, in the
\* order of the file.
parseOutagesICAL(file) == [i \in DOMAIN file.content |-> icalOutage(file.content[i])]

\* Variant: an event that cannot be converted is not noticed.
parseOutagesICAL_raises_m(file) == FALSE
\* parseOutagesICAL catches nothing: the exception of one VEVENT leaves the
\* loop and the function, and the list built so far is dropped with it.
parseOutagesICAL_raises(file) ==
  \E i \in DOMAIN file.content : malformed(file.content[i])

\* HMDCOutages.writeParsedXML(outages, output): the file written, one <item>
\* per outage in order, stamped with the time of the write.
writeParsedXML(list, t) == File(list, t)

\* Bytes of one <item> as lxml writes it: the markup and the one-character
\* title and link, the three timestamps, and "True" or "False".
itemSize(o) == 120 + 3 * StampWidth + (IF o.resolved = "True" THEN 4 ELSE 5)

RECURSIVE listSize(_)
listSize(list) ==
  IF list = <<>> THEN 0 ELSE itemSize(Head(list)) + listSize(Tail(list))

\* os.stat(f).st_size of a written snapshot.
st_size(file) == 60 + listSize(file.content)

\* filecmp._sig(os.stat(f)): (type, size, mtime); both files are regular.
sig(file) == <<st_size(file), file.mtime>>

\* Variant: only the signatures are compared, the bytes never.
filecmp_cmp_m(f1, f2) == sig(f1) = sig(f2)
\* filecmp.cmp(f1, f2) with its default shallow=1: equal signatures are taken
\* as equal files; otherwise different sizes are different files; otherwise
\* the bytes are compared.
filecmp_cmp(f1, f2) ==
  IF sig(f1) = sig(f2) THEN TRUE
  ELSE IF st_size(f1) # st_size(f2) THEN FALSE
  ELSE f1.content = f2.content

\* What urllib2.urlopen can do: raise one of the two errors the call
\* catches, or answer with the feed the calendar serves at the moment.
FetchErrors == {"HTTPError", "URLError"}
Responses == [error : FetchErrors, body : {<<>>}]
               \cup [error : {"none"}, body : Feeds \cup BadFeeds]

\* Variant: the cache is opened for writing before the feed is requested.
fetch_m(response, cache, t) ==
  IF response.error = "none" THEN File(response.body, t) ELSE File(<<>>, t)
\* The try block of isFeedUpdated: the cache file after it.  urlopen raises
\* before the cache is opened, so a failed fetch leaves the cache alone.
fetch(response, cache, t) ==
  IF response.error = "none" THEN File(response.body, t) ELSE cache

\* Variant: without a parsed file an empty feed is reported as unchanged.
compare_m(temp, parsed) ==
  IF parsed.exists THEN ~filecmp_cmp(temp, parsed) ELSE temp.content # <<>>
\* feedUpdated as isFeedUpdated computes it: not filecmp.cmp(temp, parsed)
\* if the parsed file exists, True on the first run.
compare(temp, parsed) ==
  IF parsed.exists THEN ~filecmp_cmp(temp, parsed) ELSE TRUE

\* HMDCOutages.isFeedUpdated(), the whole call.  A failed fetch enters an
\* except clause whose print names the undefined `url`: the NameError leaves
\* the call.  Otherwise the feed is written to the cache and parsed; an
\* exception of the parser leaves the call too, with the cache written.
\* Otherwise the list is written to the temp file and compared with the
\* parsed file; the temp file is moved over the parsed file or removed.
isFeedUpdated ==
  \E response \in Responses :
    /\ fetch_result' = IF response.error = "none" THEN "ok" ELSE response.error
    /\ first_run' = ~parsed_file.exists
    /\ cache_file' = fetch(response, cache_file, clock)
    /\ IF response.error # "none" \/ parseOutagesICAL_raises(cache_file')
         THEN /\ cycle' = "raised"
              /\ UNCHANGED <<temp_file, parsed_file, feedUpdated, fu_outages>>
         ELSE LET list == parseOutagesICAL(cache_file')
                  temp == writeParsedXML(list, clock)
                  updated == compare(temp, parsed_file)
              IN /\ fu_outages' = list
                 /\ parsed_file' = IF updated THEN temp ELSE parsed_file
                 /\ temp_file' = NoFile
                 /\ feedUpdated' = updated
                 /\ cycle' = "returned"
    /\ parser_applied' = IF response.error # "none" THEN parser_applied
                                                    ELSE "parseOutagesICAL"
    /\ UNCHANGED <<classifierVars, clock, stepVars, widgetVars, dateVars,
                   rss_cache_file>>

\* The clock that stamps the files moves on.
Tick ==
  /\ clock < MaxTime
  /\ clock' = clock + 1
  /\ UNCHANGED <<classifierVars, cacheVars, stepVars, widgetVars, dateVars, rssVars>>

InitFeed ==
  /\ outages = <<>>
  /\ clock = 1
  /\ scope_ahead = 0
  /\ scope_past = 0
  /\ pc = "idle"
  /\ now = 0
  /\ sorted_outages = EmptyBuckets
  /\ raised_at = 0
  /\ prev = NoCall
  /\ cache_file = NoFile
  /\ temp_file = NoFile
  /\ parsed_file = NoFile
  /\ cycle = "none"
  /\ feedUpdated = FALSE
  /\ fu_outages = <<>>
  /\ fetch_result = "none"
  /\ first_run = FALSE
  /\ StepsAtRest
  /\ RssAtRest
  /\ WidgetAtRest
  /\ DatesAtRest

NextFeed == isFeedUpdated \/ Tick

SpecFeed == InitFeed /\ [][NextFeed]_vars

\* ------------------------------------------------------------------ cycle, step by step
\* isFeedUpdated statement by statement, in the cron process, with a reader
\* of the parsed file (the widget's checkForUpdates) in another process.

\* urllib2.urlopen(self.feedURL) is called without a timeout and no default
\* socket timeout is set: besides answering or raising, the request can
\* stay unanswered.
NoAnswer == [error |-> "silent", body |-> <<>>]
StepResponses == {r \in Responses : Len(r.body) <= 1} \cup {NoAnswer}

\* Variant: writeParsedXML called without its output argument, which then
\* defaults to PARSED_FILE.
output_m == "parsed"
\* The output argument of the writeParsedXML call: self.temp.
output == "temp"

\* cacheOutages.py starts: createCache() calls isFeedUpdated(), which sends
\* the request.
Begin ==
  /\ at = "idle"
  /\ at' = "urlopen"
  /\ pending' \in StepResponses
  /\ snapshot_before' = parsed_file
  /\ first_run' = ~parsed_file.exists
  /\ UNCHANGED <<classifierVars, widgetVars, dateVars, rssVars, clock, cache_file, temp_file, parsed_file,
                 cycle, feedUpdated, fu_outages, fetch_result, open_file, seen>>

\* The try block: urlopen answers and the body is written to the cache, or
\* urlopen raises, the except clause raises NameError and the process ends.
Urlopen ==
  /\ at = "urlopen"
  /\ pending # NoAnswer
  /\ cache_file' = fetch(pending, cache_file, clock)
  /\ fetch_result' = IF pending.error = "none" THEN "ok" ELSE pending.error
  /\ IF pending.error = "none"
       THEN at' = "parse" /\ UNCHANGED cycle
       ELSE at' = "idle" /\ cycle' = "raised"
  /\ UNCHANGED <<classifierVars, widgetVars, dateVars, rssVars, clock, temp_file, parsed_file, feedUpdated,
                 fu_outages, first_run, pending, open_file, snapshot_before,
                 seen>>

\* outages = self.parseOutagesICAL( self.cache ), or its exception ends the
\* process.
Parse ==
  /\ at = "parse"
  /\ IF parseOutagesICAL_raises(cache_file)
       THEN at' = "idle" /\ cycle' = "raised" /\ UNCHANGED fu_outages
       ELSE /\ fu_outages' = parseOutagesICAL(cache_file)
            /\ at' = "open"
            /\ UNCHANGED cycle
  /\ parser_applied' = "parseOutagesICAL"
  /\ UNCHANGED <<classifierVars, widgetVars, dateVars, rss_cache_file, clock, cache_file, temp_file, parsed_file,
                 feedUpdated, fetch_result, first_run, pending,
                 open_file, snapshot_before, seen>>

\* writeParsedXML: open( output, 'w' ) creates or truncates the file.
OpenOutput ==
  /\ at = "open"
  /\ IF output = "temp"
       THEN temp_file' = File(<<>>, clock) /\ UNCHANGED parsed_file
       ELSE parsed_file' = File(<<>>, clock) /\ UNCHANGED temp_file
  /\ open_file' = output
  /\ at' = "write"
  /\ UNCHANGED <<classifierVars, widgetVars, dateVars, rssVars, clock, cache_file, cycle, feedUpdated,
                 fu_outages, fetch_result, first_run, pending,
                 snapshot_before, seen>>

\* writeParsedXML: tree.write( file, ... ) and the file is closed.
WriteOutput ==
  /\ at = "write"
  /\ IF output = "temp"
       THEN temp_file' = writeParsedXML(fu_outages, clock)
            /\ UNCHANGED parsed_file
       ELSE parsed_file' = writeParsedXML(fu_outages, clock)
            /\ UNCHANGED temp_file
  /\ open_file' = "none"
  /\ at' = "compare"
  /\ UNCHANGED <<classifierVars, widgetVars, dateVars, rssVars, clock, cache_file, cycle, feedUpdated,
                 fu_outages, fetch_result, first_run, pending,
                 snapshot_before, seen>>

\* if os.path.isfile( parsed ): feedUpdated = not filecmp.cmp(...) else True
Compare ==
  /\ at = "compare"
  /\ feedUpdated' = compare(temp_file, parsed_file)
  /\ at' = "finish"
  /\ UNCHANGED <<classifierVars, widgetVars, dateVars, rssVars, clock, cache_file, temp_file, parsed_file,
                 cycle, fu_outages, fetch_result, first_run, pending,
                 open_file, snapshot_before, seen>>

\* shutil.move( temp, parsed ), a rename within DIR, or os.remove( temp );
\* then return feedUpdated.
Finish ==
  /\ at = "finish"
  /\ parsed_file' = IF feedUpdated THEN temp_file ELSE parsed_file
  /\ temp_file' = NoFile
  /\ cycle' = "returned"
  /\ at' = "idle"
  /\ UNCHANGED <<classifierVars, widgetVars, dateVars, rssVars, clock, cache_file, feedUpdated, fu_outages,
                 fetch_result, first_run, pending, open_file,
                 snapshot_before, seen>>

\* The steps of a cycle already begun.
WriterStep == Urlopen \/ Parse \/ OpenOutput \/ WriteOutput \/ Compare \/ Finish

\* A reader opens the parsed file (parseOutagesXML( 1 )): it holds the file
\* as it is at that moment, all written or not.
Read ==
  /\ seen' = [at |-> at, file |-> parsed_file,
              partial |-> open_file = "parsed"]
  /\ UNCHANGED <<classifierVars, widgetVars, dateVars, rssVars, clock, cacheVars, at, pending, open_file,
                 snapshot_before>>

NextSteps == Begin \/ WriterStep \/ Read \/ Tick

SpecSteps == InitFeed /\ [][NextSteps]_vars

\* ------------------------------------------------------------------ widget
\* HMDCNotifications in widget mode (outageNotifierGUI.py): gobject timers
\* and left clicks call checkForUpdates, beside the cron job that rewrites
\* the parsed file.

\* Most timers the model lets clicks pile up.
MaxTimers == 2

SCOPE_AHEAD == 2678400
SCOPE_PAST == 43200

\* The scopes counted in the model's unit of time, SCOPE_PAST seconds.
scope_ahead_units == SCOPE_AHEAD \div SCOPE_PAST
scope_past_units == SCOPE_PAST \div SCOPE_PAST

\* Variant: resolved cast with bool(), true for every non-empty text.
parsedOutage_m(o) ==
  [end_time   |-> o.endtime.val,
   link       |-> o.link,
   mod_time   |-> o.modtime.val,
   resolved   |-> (o.resolved # ""),
   start_time |-> o.starttime.val,
   title      |-> o.title]
\* The dictionary parseOutagesXML( 1 ) builds for one <item>: the timestamps
\* cast with int(), resolved compared with "True".
parsedOutage(o) ==
  [end_time   |-> o.endtime.val,
   link       |-> o.link,
   mod_time   |-> o.modtime.val,
   resolved   |-> (o.resolved = "True"),
   start_time |-> o.starttime.val,
   title      |-> o.title]

\* HMDCOutages.parseOutagesXML( 1 ) on the parsed file.
parseOutagesXML(file) == [i \in DOMAIN file.content |-> parsedOutage(file.content[i])]

\* HMDCNotifications.sortOutagesByStatus, the copy of the classifier with
\* the class constants as scopes.
sortOutagesByStatus(parsedOutages, t) ==
  sort_loop(parsedOutages, 1, t, scope_ahead_units, scope_past_units,
            EmptyBuckets)

\* Timers added by a call of checkForUpdates: gobject.timeout_add is its
\* last statement, reached only if nothing before it raised.
rearm(raised) == IF raised THEN 0 ELSE 1

\* if modTime != self.lastUpdate or forceUpdate:
display_due(modTime, last, force) == modTime # last \/ force

\* HMDCNotifications.checkForUpdates( forceUpdate ), the whole call, started
\* with `fired` timers consumed (the callback returns None, so the source
\* that fired is removed).  os.path.getmtime raises OSError if the parsed
\* file is missing, sortOutagesByStatus raises on an integrity error; an
\* exception leaves the call before lastUpdate is set and the timer armed.
checkForUpdates(forceUpdate, fired) ==
  LET missing == ~parsed_file.exists
      modTime == parsed_file.mtime
      r == sortOutagesByStatus(parseOutagesXML(parsed_file), clock)
      due == ~missing /\ display_due(modTime, lastUpdate, forceUpdate)
      raised == missing \/ (due /\ r.raised_at # 0)
      displayed == due /\ ~raised
  IN /\ widget' = IF raised THEN "raised" ELSE "done"
     /\ notified' = IF displayed THEN r.sorted_outages ELSE EmptyBuckets
     /\ shown' = IF displayed THEN r.sorted_outages ELSE shown
     /\ lastUpdate' = IF raised THEN lastUpdate ELSE modTime
     /\ timers' = timers - fired + rearm(raised)
     /\ UNCHANGED <<classifierVars, clock, cacheVars, stepVars, dateVars, rssVars,
                    Outages_bound>>

\* A timeout source fires: gobject calls checkForUpdates().
TimerFires ==
  /\ timers > 0
  /\ checkForUpdates(FALSE, 1)

\* _buttonPressEvent with event.button == 1: checkForUpdates( True ).
LeftClick ==
  /\ Outages_bound
  /\ timers < MaxTimers
  /\ checkForUpdates(TRUE, 0)

\* widgetInit() has armed the first timer and entered gtk.main(); if the
\* name `Outages` (used in the class body, never imported) does not
\* resolve, the module fails to load and no widget runs.
InitWidget ==
  /\ outages = <<>>
  /\ clock = 1
  /\ scope_ahead = 0
  /\ scope_past = 0
  /\ pc = "idle"
  /\ now = 0
  /\ sorted_outages = EmptyBuckets
  /\ raised_at = 0
  /\ prev = NoCall
  /\ cache_file = NoFile
  /\ temp_file = NoFile
  /\ parsed_file = NoFile
  /\ cycle = "none"
  /\ feedUpdated = FALSE
  /\ fu_outages = <<>>
  /\ fetch_result = "none"
  /\ first_run = FALSE
  /\ StepsAtRest
  /\ RssAtRest
  /\ Outages_bound \in BOOLEAN
  /\ timers = IF Outages_bound THEN 1 ELSE 0
  /\ lastUpdate = 0
  /\ widget = "none"
  /\ notified = EmptyBuckets
  /\ shown = EmptyBuckets
  /\ DatesAtRest

NextWidget == isFeedUpdated \/ Tick \/ TimerFires \/ LeftClick

SpecWidget == InitWidget /\ [][NextWidget]_vars

\* ------------------------------------------------------------------ date parser
\* HMDCOutages.parseDateHTML: the dates written in an event's description,
\* found with the regex, padded to a set format and converted to unix time.

\* Most dates and times written in one description.
MaxItems == 5

months == <<"Jan", "Feb", "Mar", "Apr", "May", "Jun",
            "Jul", "Aug", "Sep", "Oct", "Nov", "Dec">>
monthNames == {months[i] : i \in DOMAIN months}

\* What a description can hold: a date "Mar 27", alone or followed by a
\* year ("Mar 27 2014"), or a time "8:35am".
DateItems == [kind : {"date"}, month : {"Mar"}, day : {"27", "28"},
              year : {"", "2014"}]
TimeItems == {[kind |-> "time", hour |-> "8", minute |-> "35", period |-> "am"],
              [kind |-> "time", hour |-> "9", minute |-> "35", period |-> "pm"]}
Items == DateItems \cup TimeItems
Descriptions == UNION {[1..k -> Items] : k \in 0..MaxItems}

\* The matches of the regex in one item, blank groups dropped.  The regex
\* is an alternation  date | year | time : a year is a match of its own,
\* never a third group of the date before it.
matches(item) ==
  IF item.kind = "time" THEN <<(<<item.hour, item.minute, item.period>>)>>
  ELSE IF item.year = "" THEN <<(<<item.month, item.day>>)>>
  ELSE <<(<<item.month, item.day>>), (<<item.year>>)>>

\* pattern.findall( ... ) followed by filter( None, result ) on each match.
RECURSIVE findall(_)
findall(text) ==
  IF text = <<>> THEN <<>> ELSE matches(Head(text)) \o findall(Tail(text))

\* int( s ) for the numerals of the model; anything else is a ValueError.
Numerals == {"00", "8", "9", "11", "12", "27", "28", "35", "59", "2014"}
int(s) ==
  CASE s = "00" -> 0 [] s = "8" -> 8 [] s = "9" -> 9 [] s = "11" -> 11
    [] s = "12" -> 12 [] s = "27" -> 27 [] s = "28" -> 28 [] s = "35" -> 35
    [] s = "59" -> 59 [] s = "2014" -> 2014

\* The number of a month name, as %b reads it.
monthNumber(name) == CHOOSE i \in DOMAIN months : months[i] = name

\* time.mktime of a broken-down time, counted on a calendar of 31-day
\* months (seconds since 1970).
mktime(year, month, day, hour, minute) ==
  (((((year - 1970) * 12 + (month - 1)) * 31 + (day - 1)) * 24 + hour) * 60
     + minute) * 60

\* Variant: pm adds twelve hours and 12 is not wrapped to 0.
hour24_m(hour, period) == hour + (IF period = "pm" THEN 12 ELSE 0)
\* %I with %p: 12am is hour 0, 12pm is hour 12.
hour24(hour, period) == (hour % 12) + (IF period = "pm" THEN 12 ELSE 0)

Raise(e) == [error |-> e, unixtime |-> zeros]

\* formatDateAsUnix( dates, index ): the element at index is read as a date
\* and the next one as a time.  Indexing past the end of a tuple is an
\* IndexError, int() of a non-numeral and a string strptime cannot read
\* are ValueErrors.
formatDateAsUnix(dates, index, thisYear) ==
  LET d == dates[index]
      t == dates[index + 1]
  IN IF Len(d) < 2 THEN Raise("IndexError")
     ELSE IF d[2] \notin Numerals THEN Raise("ValueError")
     ELSE IF t[1] \notin Numerals THEN Raise("ValueError")
     ELSE IF Len(t) < 3 THEN Raise("IndexError")
     ELSE IF Len(d) = 3 /\ d[3] \notin Numerals THEN Raise("ValueError")
     ELSE LET year == IF Len(d) = 3 THEN int(d[3]) ELSE thisYear
              day == int(d[2])
              hour == int(t[1])
          IN IF \/ d[1] \notin monthNames
                \/ day < 1 \/ day > 31
                \/ hour < 1 \/ hour > 12
                \/ t[2] \notin Numerals \/ int(t[2]) > 59
                \/ t[3] \notin {"am", "pm"}
               THEN Raise("ValueError")
             ELSE [error |-> "none",
                   unixtime |-> str(mktime(year, monthNumber(d[1]), day,
                                           hour24(hour, t[3]), int(t[2])))]

midnight == <<"12", "00", "am">>
lastMinute == <<"11", "59", "pm">>

\* Variant: a single date is given a start time only.
pad_m(dates) ==
  IF Len(dates) = 4 THEN dates
  ELSE IF Len(dates) = 3 THEN <<dates[1], dates[2], dates[1], dates[3]>>
  ELSE IF Len(dates) = 2
    THEN IF dates[2][1] \in monthNames
           THEN <<dates[1], midnight, dates[2], lastMinute>>
           ELSE dates
  ELSE <<dates[1], midnight>>
\* Variant: a date and one time are padded with the same date and time.
pad_m_same_day(dates) ==
  IF Len(dates) = 4 THEN dates
  ELSE IF Len(dates) = 3 THEN <<dates[1], dates[2], dates[1], dates[3]>>
  ELSE IF Len(dates) = 2
    THEN IF dates[2][1] \in monthNames
           THEN <<dates[1], midnight, dates[2], lastMinute>>
           ELSE <<dates[1], dates[2], dates[1], dates[2]>>
  ELSE dates \o <<midnight, dates[1], lastMinute>>
\* Variant: three elements are kept as they are.
pad_m_three(dates) ==
  IF Len(dates) = 4 THEN dates
  ELSE IF Len(dates) = 3 THEN dates
  ELSE IF Len(dates) = 2
    THEN IF dates[2][1] \in monthNames
           THEN <<dates[1], midnight, dates[2], lastMinute>>
           ELSE dates
  ELSE dates \o <<midnight, dates[1], lastMinute>>
\* The padding of 1 to 4 elements ("Fill in missing information"): 4 are
\* kept, 3 get the first date inserted before the last time, 2 get times
\* if the second is a date and are kept otherwise, 1 gets midnight, itself
\* and 11:59pm.
pad(dates) ==
  IF Len(dates) = 4 THEN dates
  ELSE IF Len(dates) = 3 THEN <<dates[1], dates[2], dates[1], dates[3]>>
  ELSE IF Len(dates) = 2
    THEN IF dates[2][1] \in monthNames
           THEN <<dates[1], midnight, dates[2], lastMinute>>
           ELSE dates
  ELSE dates \o <<midnight, dates[1], lastMinute>>

\* len( dates ) after findall and filter.
numDateElements(text) == Len(findall(text))

\* parseDateHTML( html ) as a function of the description and the year.
parseDate(text, thisYear) ==
  LET found == findall(text)
  IN IF Len(found) \notin 1..4
       THEN [error |-> "Exception", starttime |-> zeros, endtime |-> zeros]
     ELSE LET dates == pad(found)
              start == formatDateAsUnix(dates, 1, thisYear)
              end == IF Len(dates) > 2
                       THEN formatDateAsUnix(dates, 3, thisYear)
                       ELSE [error |-> "none", unixtime |-> zeros]
          IN IF start.error # "none"
               THEN [error |-> start.error, starttime |-> zeros,
                     endtime |-> zeros]
             ELSE IF end.error # "none"
               THEN [error |-> end.error, starttime |-> zeros,
                     endtime |-> zeros]
             ELSE [error |-> "none", starttime |-> start.unixtime,
                   endtime |-> end.unixtime]

\* HMDCOutages.parseDateHTML( html ), the whole call.
parseDateHTML ==
  /\ date_pc = "idle"
  /\ date_pc' = "called"
  /\ dateDict' = parseDate(html, year_now)
  /\ UNCHANGED <<classifierVars, clock, cacheVars, stepVars, widgetVars,
                 rssVars, html, year_now>>

ThisYears == {2015, 2016}

InitDates ==
  /\ outages = <<>>
  /\ clock = 1
  /\ scope_ahead = 0
  /\ scope_past = 0
  /\ pc = "idle"
  /\ now = 0
  /\ sorted_outages = EmptyBuckets
  /\ raised_at = 0
  /\ prev = NoCall
  /\ cache_file = NoFile
  /\ temp_file = NoFile
  /\ parsed_file = NoFile
  /\ cycle = "none"
  /\ feedUpdated = FALSE
  /\ fu_outages = <<>>
  /\ fetch_result = "none"
  /\ first_run = FALSE
  /\ StepsAtRest
  /\ RssAtRest
  /\ WidgetAtRest
  /\ html \in Descriptions
  /\ year_now \in ThisYears
  /\ date_pc = "idle"
  /\ dateDict = NoDates

NextDates == parseDateHTML

SpecDates == InitDates /\ [][NextDates]_vars

\* ------------------------------------------- createCache( useRSS=True )
\* An <item> of the RSS feed: a description that opens with the dates of the
\* outage, with or without the resolved marker.
RssItem ==
  [description : {<<d>> : d \in {x \in DateItems : x.year = ""}},
   marked : BOOLEAN]
RssFeeds == UNION {[1..k -> RssItem] : k \in 0..MaxFeed}
RssResponses == [error : FetchErrors, body : {<<>>}]
                  \cup [error : {"none"}, body : RssFeeds]

\* The dictionary parseOutagesXML( 0 ) builds for one <item>: the times from
\* parseDateHTML on the description, a blank modification time.
rssOutage(item, thisYear) ==
  LET dates == parseDate(item.description, thisYear)
  IN [endtime   |-> dates.endtime,
      link      |-> "l",
      modtime   |-> zeros,
      resolved  |-> strBool(item.marked),
      starttime |-> dates.starttime,
      title     |-> "t"]

\* HMDCOutages.parseOutagesXML( 0 ) on the RSS cache.
parseOutagesXML_RSS(file, thisYear) ==
  [i \in DOMAIN file.content |-> rssOutage(file.content[i], thisYear)]

\* What Calendar.from_ical makes of a file that is RSS and no calendar: it
\* refuses the text, or it finds a calendar without a single VEVENT.
FromIcalOnXml == {"ValueError", "no VEVENT"}

\* HMDCOutages.createCache( True ), the whole call: feedURL, cache, temp and
\* parser are set to the RSS ones and isFeedUpdated() runs.  It fetches the
\* RSS feed into the RSS cache and then calls self.parseOutagesICAL on
\* self.cache whatever self.parser is.
createCache_useRSS ==
  \E response \in RssResponses, ical \in FromIcalOnXml :
    /\ fetch_result' = IF response.error = "none" THEN "ok" ELSE response.error
    /\ first_run' = ~parsed_file.exists
    /\ rss_cache_file' = fetch(response, rss_cache_file, clock)
    /\ parser_applied' = IF response.error # "none" THEN parser_applied
                                                    ELSE "parseOutagesICAL"
    /\ IF response.error # "none" \/ ical = "ValueError"
         THEN /\ cycle' = "raised"
              /\ UNCHANGED <<temp_file, parsed_file, feedUpdated, fu_outages>>
         ELSE LET list == <<>>
                  temp == writeParsedXML(list, clock)
                  updated == compare(temp, parsed_file)
              IN /\ fu_outages' = list
                 /\ parsed_file' = IF updated THEN temp ELSE parsed_file
                 /\ temp_file' = NoFile
                 /\ feedUpdated' = updated
                 /\ cycle' = "returned"
    /\ UNCHANGED <<classifierVars, clock, stepVars, widgetVars, dateVars,
                   cache_file>>

InitRSS ==
  /\ outages = <<>>
  /\ clock = 1
  /\ scope_ahead = 0
  /\ scope_past = 0
  /\ pc = "idle"
  /\ now = 0
  /\ sorted_outages = EmptyBuckets
  /\ raised_at = 0
  /\ prev = NoCall
  /\ cache_file = NoFile
  /\ temp_file = NoFile
  /\ parsed_file = NoFile
  /\ cycle = "none"
  /\ feedUpdated = FALSE
  /\ fu_outages = <<>>
  /\ fetch_result = "none"
  /\ first_run = FALSE
  /\ StepsAtRest
  /\ RssAtRest
  /\ WidgetAtRest
  /\ html = <<>>
  /\ year_now \in ThisYears
  /\ date_pc = "idle"
  /\ dateDict = NoDates

NextRSS == createCache_useRSS \/ Tick

SpecRSS == InitRSS /\ [][NextRSS]_vars

\* ------------------------------------------- one outage, polled over time
\* The last instant polled: late enough for the latest end to have left
\* the past scope.
MaxPoll == 2 * MaxTime + MaxScope

\* An unresolved outage with 0 < start_time, and without an end or with
\* start_time < end_time.
PolledOutage ==
  {o \in [end_time : 0..(2 * MaxTime), link : Links, mod_time : ModTimes,
          resolved : {FALSE}, start_time : 1..MaxTime, title : Titles] :
     o.end_time = 0 \/ o.start_time < o.end_time}

\* time.time() between two polls.
PollTick ==
  /\ clock < MaxPoll
  /\ clock' = clock + 1
  /\ UNCHANGED <<classifierVars, cacheVars, stepVars, widgetVars, dateVars,
                 rssVars>>

InitPoll ==
  /\ outages \in {<<o>> : o \in PolledOutage}
  /\ clock = 0
  /\ scope_ahead \in 1..MaxScope
  /\ scope_past \in 1..MaxScope
  /\ pc = "idle"
  /\ now = 0
  /\ sorted_outages = EmptyBuckets
  /\ raised_at = 0
  /\ prev = NoCall
  /\ cache_file = NoFile
  /\ temp_file = NoFile
  /\ parsed_file = NoFile
  /\ cycle = "none"
  /\ feedUpdated = FALSE
  /\ fu_outages = <<>>
  /\ fetch_result = "none"
  /\ first_run = FALSE
  /\ StepsAtRest
  /\ RssAtRest
  /\ WidgetAtRest
  /\ DatesAtRest

NextPoll == sort_outages_by_status \/ PollTick

SpecPoll == InitPoll /\ [][NextPoll]_vars

\* ------------------------------------------- the widget, snapshot at rest
\* The widget started after a cron cycle accepted a feed; no further cycle
\* changes the snapshot and nobody clicks.  The GLib main loop runs a due
\* timer and the clock moves on.
\* The feed accepted: the events of the cache refresh, and one that starts
\* later (scheduled first, active once the clock reaches its start).
LaterEvent == [dtstart |-> 2, dtend |-> 2, marked |-> FALSE]
TimerFeeds == UNION {[1..k -> VEvent \cup {LaterEvent}] : k \in 0..MaxFeed}

InitTimer ==
  /\ outages = <<>>
  /\ clock = 1
  /\ scope_ahead = 0
  /\ scope_past = 0
  /\ pc = "idle"
  /\ now = 0
  /\ sorted_outages = EmptyBuckets
  /\ raised_at = 0
  /\ prev = NoCall
  /\ \E feed \in TimerFeeds :
       /\ cache_file = File(feed, 1)
       /\ fu_outages = parseOutagesICAL(cache_file)
       /\ parsed_file = writeParsedXML(fu_outages, 1)
  /\ temp_file = NoFile
  /\ cycle = "returned"
  /\ feedUpdated = TRUE
  /\ fetch_result = "ok"
  /\ first_run = TRUE
  /\ StepsAtRest
  /\ rss_cache_file = NoFile
  /\ parser_applied = "parseOutagesICAL"
  /\ Outages_bound = TRUE
  /\ timers = 1
  /\ lastUpdate = 0
  /\ widget = "none"
  /\ notified = EmptyBuckets
  /\ shown = EmptyBuckets
  /\ DatesAtRest

NextTimer == TimerFires \/ Tick

SpecTimer ==
  InitTimer /\ [][NextTimer]_vars /\ WF_vars(TimerFires) /\ WF_vars(Tick)

\* ------------------------------------------------------------------ claims
BucketNames == {"active", "completed", "scheduled"}

InSeq(r, s) == \E i \in DOMAIN s : s[i] = r
Count(r, s) == Cardinality({i \in DOMAIN s : s[i] = r})
InNoBucket(r) == \A b \in BucketNames : ~InSeq(r, sorted_outages[b])

\* The latest call returned its buckets (it did not raise).
Returned == pc = "called" /\ raised_at = 0

\* Every occurrence of every input record is in at most one bucket, exactly
\* once, and the buckets hold nothing but input records.
Partition ==
  /\ \A i \in DOMAIN outages :
       /\ Cardinality({b \in BucketNames :
                         InSeq(outages[i], sorted_outages[b])}) <= 1
       /\ \A b \in BucketNames :
            InSeq(outages[i], sorted_outages[b])
              => Count(outages[i], sorted_outages[b]) = Count(outages[i], outages)
  /\ \A b \in BucketNames : \A j \in DOMAIN sorted_outages[b] :
       InSeq(sorted_outages[b][j], outages)

\* Some record has a defined end_time that is not after now while its
\* start_time is still ahead of now.
EndedBeforeStarting ==
  \E i \in DOMAIN outages :
    /\ outages[i].end_time # 0
    /\ outages[i].end_time <= now
    /\ now < outages[i].start_time

\* C1 as stated: for every list the call gives every record exactly one of
\* the outcomes active, completed, scheduled, dropped (it always returns a
\* partition of the list).
C1_TotalForEveryList == pc = "called" => (raised_at = 0 /\ Partition)

\* C1 as amended: a call that returns gives every record exactly one of the
\* outcomes active, completed, scheduled, dropped (no record in two buckets or
\* twice in a bucket); the call raises instead, returning no buckets, exactly
\* when some record has a defined end_time <= now < start_time.
C1_PartitionUnlessRaised ==
  pc = "called" =>
    /\ raised_at = 0 => Partition
    /\ raised_at # 0 <=> EndedBeforeStarting
    /\ raised_at # 0 => sorted_outages = EmptyBuckets

C1_Witness ==
  /\ Returned
  /\ Len(outages) = 2
  /\ Len(sorted_outages.active) = 1
  /\ Len(sorted_outages.scheduled) = 1

\* C2: a record whose defined end_time is strictly before its start_time makes
\* the call raise the integrity error and is never placed in a bucket.
C2_EndBeforeStartRaises ==
  pc = "called" =>
    \A i \in DOMAIN outages :
      (outages[i].end_time # 0 /\ outages[i].end_time < outages[i].start_time)
        => (raised_at # 0 /\ InNoBucket(outages[i]))

\* The specification's rules 1-4, in order, with
\* has_ended == end_time - now <= 0 AND end_time != 0.
rule_has_ended(outage, t) == outage.end_time - t <= 0 /\ outage.end_time # 0

RuleOutcome(outage, t, ahead, past) ==
  LET started == outage.start_time - t <= 0
      ended == rule_has_ended(outage, t)
      hasEnd == outage.end_time # 0
  IN IF hasEnd /\ ended /\ ~started THEN "error"
     ELSE IF started /\ (~ended \/ ~hasEnd) /\ ~outage.resolved THEN "active"
     ELSE IF ((started /\ ended) \/ outage.resolved)
               /\ abs(outage.end_time - t) < past THEN "completed"
     ELSE IF ~started /\ ~outage.resolved /\ outage.start_time - t < ahead
       THEN "scheduled"
     ELSE "dropped"

C4_ResolvedNoEndNeverCompleted ==
  pc = "called" =>
    \A i \in DOMAIN outages :
      (outages[i].resolved /\ outages[i].end_time = 0)
        => InNoBucket(outages[i])

\* C5: an unresolved record with end_time = 0 never raises the integrity
\* error and is never completed; it is active exactly when start_time <= now,
\* otherwise scheduled exactly when start_time - now < scope_ahead, else
\* dropped.
C5_UnresolvedNoEnd ==
  pc = "called" =>
    \A i \in DOMAIN outages :
      (~outages[i].resolved /\ outages[i].end_time = 0) =>
        /\ raised_at # i
        /\ raised_at = 0 =>
             /\ ~InSeq(outages[i], sorted_outages.completed)
             /\ InSeq(outages[i], sorted_outages.active)
                  <=> outages[i].start_time <= now
             /\ InSeq(outages[i], sorted_outages.scheduled)
                  <=> (outages[i].start_time > now
                       /\ outages[i].start_time - now < scope_ahead)

C5_Witness ==
  /\ Returned
  /\ \E i \in DOMAIN outages :
       /\ ~outages[i].resolved
       /\ outages[i].end_time = 0
       /\ outages[i].start_time > now
       /\ InSeq(outages[i], sorted_outages.scheduled)

\* C6: a resolved record that has started and has a defined end_time with
\* abs(end_time - now) < scope_past is in completed and not in active, whether
\* its end_time is past or not.
C6_ResolvedInScopeCompleted ==
  Returned =>
    \A i \in DOMAIN outages :
      (/\ outages[i].resolved
       /\ outages[i].start_time <= now
       /\ outages[i].end_time # 0
       /\ abs(outages[i].end_time - now) < scope_past)
        => /\ InSeq(outages[i], sorted_outages.completed)
           /\ ~InSeq(outages[i], sorted_outages.active)

C6_Witness ==
  /\ Returned
  /\ \E i \in DOMAIN outages :
       /\ outages[i].resolved
       /\ outages[i].start_time <= now
       /\ outages[i].end_time > now
       /\ InSeq(outages[i], sorted_outages.completed)

\* The records whose three tests the latest call evaluated.
Evaluated ==
  IF raised_at = 0 THEN DOMAIN outages ELSE 1..(raised_at - 1)

\* C7: the three tests as the code evaluates them are pairwise mutually
\* exclusive for every record, now and scope setting.
C7_RulesMutuallyExclusive ==
  pc = "called" =>
    \A i \in Evaluated :
      LET a == active_rule(outages[i], now)
          c == completed_rule(outages[i], now, scope_past)
          s == scheduled_rule(outages[i], now, scope_ahead)
      IN ~(a /\ c) /\ ~(a /\ s) /\ ~(c /\ s)

RECURSIVE IsSubseq(_, _)
IsSubseq(s, t) ==
  IF s = <<>> THEN TRUE
  ELSE IF t = <<>> THEN FALSE
  ELSE IF Head(s) = Head(t) THEN IsSubseq(Tail(s), Tail(t))
  ELSE IsSubseq(s, Tail(t))

\* C9: each returned bucket is a subsequence of the input list: its entries
\* are input records, field for field, in the order of the input.
C9_BucketsAreSubsequences ==
  Returned => \A b \in BucketNames : IsSubseq(sorted_outages[b], outages)

C9_Witness ==
  /\ Returned
  /\ \E b \in BucketNames :
       /\ Len(sorted_outages[b]) = 2
       /\ sorted_outages[b][1] # sorted_outages[b][2]

\* C10: when a prior accepted snapshot exists, a cycle that returns has
\* returned true and replaced the snapshot with the newly normalized feed if
\* and only if that feed differs in content from the snapshot; when they are
\* identical it has returned false, discarded the new snapshot and left the
\* accepted one untouched.
C10_ChangedIffContentDiffers ==
  [][(isFeedUpdated /\ cycle' = "returned" /\ parsed_file.exists) =>
       /\ (feedUpdated' /\ parsed_file'.content = fu_outages')
            <=> fu_outages' # parsed_file.content
       /\ fu_outages' = parsed_file.content
            => (~feedUpdated' /\ parsed_file' = parsed_file
                /\ ~temp_file'.exists)]_vars

\* C11: a call that finds no parsed file and returns has returned true,
\* whatever the feed holds (the empty feed too); afterwards the parsed file
\* exists, holds the newly normalized feed, and the temp file is gone.
C11_FirstRunAccepts ==
  (cycle = "returned" /\ first_run) =>
    /\ feedUpdated
    /\ parsed_file.exists
    /\ parsed_file.content = parseOutagesICAL(cache_file)
    /\ ~temp_file.exists

\* A first run on an empty feed has returned.
C11_Witness ==
  /\ cycle = "returned"
  /\ first_run
  /\ cache_file.exists
  /\ cache_file.content = <<>>
  /\ parsed_file.exists

\* The parsed file holds the normalization of the feed in the cache: the
\* state an accepting cycle leaves.
Accepted ==
  parsed_file.exists /\ parsed_file.content = parseOutagesICAL(cache_file)

\* A step that is a call of isFeedUpdated (a tick of the clock is none).
Call == UNCHANGED clock /\ isFeedUpdated

\* C12: once a feed is accepted, a call that fetches the same feed again
\* returns false and leaves the parsed file as it was, mtime included; the
\* state it leaves is again an accepted one, so this repeats for any number
\* of calls.
C12_RepeatIsUnchanged ==
  [][(Accepted /\ cycle' = "returned"
        /\ cache_file'.content = cache_file.content /\ Call) =>
       (~feedUpdated' /\ parsed_file' = parsed_file /\ ~temp_file'.exists
        /\ Accepted')]_vars

\* A repeated call on an unchanged, non-empty feed has returned false at a
\* later time than the one the snapshot was accepted at.
C12_Witness ==
  /\ cycle = "returned"
  /\ ~first_run
  /\ ~feedUpdated
  /\ Accepted
  /\ parsed_file.content # <<>>
  /\ parsed_file.mtime < cache_file.mtime

\* C14: a call whose fetch ends in HTTPError or URLError is abandoned (it
\* raises) with nothing normalized or compared: the cache, the temp file,
\* the parsed file and the results of the earlier call are as they were;
\* and the call after an abandoned one, if its fetch answers with a feed
\* the parser can read, writes the cache, normalizes it and returns (in
\* the cache refresh every step that leaves the clock alone is a call).
C14_FailedFetchAbandons ==
  [][/\ (fetch_result' \in FetchErrors /\ Call) =>
          /\ cycle' = "raised"
          /\ UNCHANGED <<cache_file, temp_file, parsed_file, fu_outages,
                         feedUpdated>>
     /\ (cycle = "raised" /\ fetch_result' = "ok" /\ UNCHANGED clock
           /\ ~parseOutagesICAL_raises(cache_file')) =>
          /\ cycle' = "returned"
          /\ cache_file'.exists
          /\ fu_outages' = parseOutagesICAL(cache_file')
          /\ feedUpdated' = (parsed_file' # parsed_file)
          /\ feedUpdated' => parsed_file'.content = fu_outages']_vars

\* A fetch has failed with a non-empty cache and a parsed file in place.
C14_Witness ==
  /\ cycle = "raised"
  /\ fetch_result = "URLError"
  /\ cache_file.exists
  /\ cache_file.content # <<>>
  /\ parsed_file.exists

\* C13: a reader that opens the parsed file at any point of a writer cycle
\* holds a completely written file that is either the snapshot the cycle
\* found (absent only if the cycle found none) or, once the cycle has
\* renamed the temp file over it, the new snapshot.
C13_ReaderSeesOldOrNew ==
  [][Read =>
       /\ ~seen'.partial
       /\ \/ seen'.file = snapshot_before
          \/ /\ at = "idle" /\ cycle = "returned" /\ feedUpdated
             /\ seen'.file.exists
             /\ seen'.file.content = fu_outages]_vars

\* A reader opened the parsed file while the temp file was open for writing,
\* found a snapshot, and the cycle has since replaced that snapshot.
C13_Witness ==
  /\ seen.at = "write"
  /\ seen.file.exists
  /\ at = "idle"
  /\ cycle = "returned"
  /\ feedUpdated
  /\ parsed_file.content # seen.file.content

\* C17: a cycle that has begun is never stuck: as long as isFeedUpdated has
\* neither returned nor raised, one of its steps can be taken.
C17_CycleNeverStuck == at = "idle" \/ ENABLED WriterStep

\* C15: once the widget has run a cycle of checkForUpdates, failed or not,
\* a timer is armed, so a further cycle will run.
C15_TimerArmedAfterEveryCycle ==
  (Outages_bound /\ widget # "none") => timers > 0

\* C16: a timer tick pops notifications up only if the buckets it classified
\* differ from the buckets displayed the time before.
C16_TickShowsOnlyChanges ==
  [][(TimerFires /\ notified' # EmptyBuckets) => notified' # shown]_vars

IsDate(item) == item.kind = "date"
IsTime(item) == item.kind = "time"

\* The timestamp text of the date of `item` at hour:minute of `year`.
StampOf(item, year, hour, minute) ==
  str(mktime(year, monthNumber(item.month), int(item.day), hour, minute))

\* C18: a description holding one date without a year and nothing else is
\* padded to four elements and parsed to that date at 00:00 and the same
\* date at 23:59 of the current year; the end time is not the zero stamp.
C18_SingleDateIsAllDay ==
  (date_pc = "called" /\ Len(html) = 1 /\ IsDate(html[1])
     /\ html[1].year = "") =>
    /\ Len(pad(findall(html))) = 4
    /\ dateDict.error = "none"
    /\ dateDict.starttime = StampOf(html[1], year_now, 0, 0)
    /\ dateDict.endtime = StampOf(html[1], year_now, 23, 59)
    /\ dateDict.endtime # zeros

\* "Mar 27" alone has been parsed.
C18_Witness ==
  /\ date_pc = "called"
  /\ Len(html) = 1
  /\ IsDate(html[1])
  /\ html[1].year = ""
  /\ html[1].day = "27"
  /\ dateDict.error = "none"

\* A description holding a date without a year followed by one time.
DateThenTime ==
  /\ Len(html) = 2
  /\ IsDate(html[1])
  /\ html[1].year = ""
  /\ IsTime(html[2])

\* The start the description of DateThenTime stands for.
StartOfDateThenTime ==
  StampOf(html[1], year_now,
          hour24(int(html[2].hour), html[2].period), int(html[2].minute))

\* C19 as claimed: a date followed by one time is padded to four elements,
\* the date standing for start and end, so that the end time is defined
\* (not the zero stamp) and on the day of the start.
C19_DateTimeGetsEnd ==
  (date_pc = "called" /\ DateThenTime) =>
    /\ Len(pad(findall(html))) = 4
    /\ dateDict.error = "none"
    /\ dateDict.endtime # zeros
    /\ dateDict.endtime.val >= StampOf(html[1], year_now, 0, 0).val
    /\ dateDict.endtime.val <= StampOf(html[1], year_now, 23, 59).val

\* C19 as the code has it: a date followed by one time is left at two
\* elements; it parses to a start at that date and time in the current
\* year and to the zero stamp as end time (an outage without an end).
C19_DateTimeHasNoEnd ==
  (date_pc = "called" /\ DateThenTime) =>
    /\ pad(findall(html)) = findall(html)
    /\ Len(findall(html)) = 2
    /\ dateDict.error = "none"
    /\ dateDict.starttime = StartOfDateThenTime
    /\ dateDict.endtime = zeros

\* "Mar 27 9:35pm" has been parsed.
C19_Witness ==
  /\ date_pc = "called"
  /\ DateThenTime
  /\ html[2].period = "pm"
  /\ dateDict.error = "none"

\* The description with every year taken out.
WithoutYears(text) == [i \in DOMAIN text |->
  IF IsDate(text[i]) THEN [text[i] EXCEPT !.year = ""] ELSE text[i]]

\* The calendar year a timestamp text falls in.
YearOf(stamp) == 1970 + stamp.val \div (12 * 31 * 24 * 60 * 60)

\* C20: years written in a description do not change the number of
\* elements that picks the shape and do not make the parse fail: the
\* description parses if it does with the years taken out; and a start
\* date is parsed into the year written with it, or into the current year
\* if none is written.
C20_YearKeepsShape ==
  date_pc = "called" =>
    /\ numDateElements(html) = numDateElements(WithoutYears(html))
    /\ parseDate(WithoutYears(html), year_now).error = "none"
         => dateDict.error = "none"
    /\ (dateDict.error = "none" /\ IsDate(html[1])) =>
         YearOf(dateDict.starttime) =
           (IF html[1].year = "" THEN year_now ELSE int(html[1].year))

\* The feed's side of the date parser: how the calendar writes a timestamp
\* (local time, the calendar of mktime).
minuteOf(ts) == (ts \div 60) % 60
hourOf(ts) == (ts \div (60 * 60)) % 24
dayOf(ts) == ((ts \div (24 * 60 * 60)) % 31) + 1
monthOf(ts) == ((ts \div (31 * 24 * 60 * 60)) % 12) + 1

\* "%02d" and "%d" for the numbers of the model.
twoDigits(n) ==
  CASE n = 0 -> "00" [] n = 27 -> "27" [] n = 28 -> "28" [] n = 35 -> "35"
    [] n = 59 -> "59"
plain(n) == CASE n = 8 -> "8" [] n = 9 -> "9" [] n = 11 -> "11" [] n = 12 -> "12"

\* "Mar 27" and "9:35pm" of a timestamp.
dateItem(ts) ==
  [kind |-> "date", month |-> months[monthOf(ts)], day |-> twoDigits(dayOf(ts)),
   year |-> ""]
timeItem(ts) ==
  [kind |-> "time",
   hour |-> plain(IF hourOf(ts) % 12 = 0 THEN 12 ELSE hourOf(ts) % 12),
   minute |-> twoDigits(minuteOf(ts)),
   period |-> IF hourOf(ts) < 12 THEN "am" ELSE "pm"]

\* The five shapes of the feed (the examples in parseDateHTML's comments):
\* start and end with times; start and end time on one day; two all-day
\* dates; a start without an end; one all-day date.
Shapes == {"date time date time", "date time time", "date date",
           "date time", "date"}

format(shape, start, end) ==
  CASE shape = "date time date time" ->
         <<dateItem(start), timeItem(start), dateItem(end), timeItem(end)>>
    [] shape = "date time time" ->
         <<dateItem(start), timeItem(start), timeItem(end)>>
    [] shape = "date date" -> <<dateItem(start), dateItem(end)>>
    [] shape = "date time" -> <<dateItem(start), timeItem(start)>>
    [] shape = "date" -> <<dateItem(start)>>

\* The timestamps of the model in a year: two days, at the two times the
\* feed writes, at midnight and at 23:59.
Days == {27, 28}
WrittenStamps(year) ==
  {mktime(year, 3, d, hm[1], hm[2]) : d \in Days, hm \in {<<8, 35>>, <<21, 35>>}}
DayStarts(year) == {mktime(year, 3, d, 0, 0) : d \in Days}
DayEnds(year) == {mktime(year, 3, d, 23, 59) : d \in Days}

\* The (start, end) pairs a shape can write; end = 0 is "no end".
Fits(shape, start, end, year) ==
  CASE shape = "date time date time" ->
         start \in WrittenStamps(year) /\ end \in WrittenStamps(year)
    [] shape = "date time time" ->
         /\ start \in WrittenStamps(year) /\ end \in WrittenStamps(year)
         /\ dayOf(start) = dayOf(end)
    [] shape = "date date" ->
         start \in DayStarts(year) /\ end \in DayEnds(year)
    [] shape = "date time" -> start \in WrittenStamps(year) /\ end = 0
    [] shape = "date" ->
         /\ start \in DayStarts(year) /\ end \in DayEnds(year)
         /\ dayOf(start) = dayOf(end)

AllStamps(year) ==
  WrittenStamps(year) \cup DayStarts(year) \cup DayEnds(year) \cup {0}

\* Every text the feed can write in a year, with the pair it stands for.
Written ==
  [year \in ThisYears |->
     {[text |-> format(w[1], w[2], w[3]), start |-> w[2], end |-> w[3]] :
        w \in {x \in Shapes \X AllStamps(year) \X AllStamps(year) :
                 Fits(x[1], x[2], x[3], year)}}]

\* C21: for each of the five shapes and every (start, end) of the current
\* year the shape can write, parsing the written text returns start and
\* end (the zero stamp for "no end").
C21_RoundTrip ==
  date_pc = "called" =>
    \A w \in Written[year_now] :
      html = w.text =>
        /\ dateDict.error = "none"
        /\ dateDict.starttime = str(w.start)
        /\ dateDict.endtime = (IF w.end = 0 THEN zeros ELSE str(w.end))

\* "Mar 27 8:35am 9:35pm" has been parsed.
C21_Witness ==
  /\ date_pc = "called"
  /\ html = format("date time time", mktime(year_now, 3, 27, 8, 35),
                   mktime(year_now, 3, 27, 21, 35))
  /\ dateDict.error = "none"

\* The list after the padding, and what its elements are.
normalized(text) == pad(findall(text))
IsDateTuple(d) == Len(d) = 2 /\ d[1] \in monthNames
IsTimeTuple(t) == Len(t) = 3 /\ t[3] \in {"am", "pm"}
DateTimeAt(dates, i) == IsDateTuple(dates[i]) /\ IsTimeTuple(dates[i + 1])
TypedShape(dates) ==
  \/ Len(dates) = 4 /\ DateTimeAt(dates, 1) /\ DateTimeAt(dates, 3)
  \/ Len(dates) = 2 /\ DateTimeAt(dates, 1)
NoPair == dateDict.starttime = zeros /\ dateDict.endtime = zeros

\* C22 as stated: a count outside 1..4 is the parse error without a pair,
\* and for 1 to 4 elements the padded list is (date, time, date, time) or
\* (date, time).
C22_NormalizedIsTyped ==
  date_pc = "called" =>
    IF numDateElements(html) \notin 1..4
      THEN dateDict.error = "Exception" /\ NoPair
      ELSE TypedShape(normalized(html))

\* C22, amended: a count outside 1..4 is the parse error without a pair;
\* for 1 to 4 elements the padded list has 4 elements or 2, and whenever a
\* pair is returned the list is (date, time, date, time), or (date, time)
\* with the zero end.
C22_CountDecides ==
  date_pc = "called" =>
    IF numDateElements(html) \notin 1..4
      THEN dateDict.error = "Exception" /\ NoPair
      ELSE /\ Len(normalized(html)) \in {2, 4}
           /\ dateDict.error # "Exception"
           /\ dateDict.error = "none" =>
                /\ TypedShape(normalized(html))
                /\ Len(normalized(html)) = 2 <=> dateDict.endtime = zeros

\* Three elements were padded to four and parsed.
C22_Witness ==
  /\ date_pc = "called"
  /\ numDateElements(html) = 3
  /\ Len(normalized(html)) = 4
  /\ dateDict.error = "none"

\* C25: in a record of the calendar path the endtime is the ten zeros if
\* the event's end equals its start and the computed end otherwise, so it
\* is the zeros or differs from the starttime.
C25_EqualEndIsNoEnd ==
  cycle = "returned" =>
    /\ Len(fu_outages) = Len(cache_file.content)
    /\ \A i \in DOMAIN fu_outages :
         LET e == cache_file.content[i]
             o == fu_outages[i]
         IN /\ o.starttime = str(e.dtstart)
            /\ e.dtend = e.dtstart => o.endtime = zeros
            /\ e.dtend # e.dtstart => o.endtime = str(e.dtend)
            /\ o.endtime = zeros \/ o.endtime.val # o.starttime.val

\* A cycle normalized an event without an end and one with an end.
C25_Witness ==
  /\ cycle = "returned"
  /\ \E i, j \in DOMAIN fu_outages :
       /\ cache_file.content[i].dtend = cache_file.content[i].dtstart
       /\ fu_outages[i].endtime = zeros
       /\ cache_file.content[j].dtend # cache_file.content[j].dtstart
       /\ fu_outages[j].endtime # zeros

HasBadEntry(feed) == \E i \in DOMAIN feed : feed[i] = BadEvent

\* C23: a call whose fetch answered but whose feed holds an entry the parser
\* cannot normalize raises: the list of the earlier call is not replaced
\* (no list from the entries before the bad one), no temp file is written
\* and the parsed file is as it was.
C23_BadEntryAbortsCycle ==
  [][(fetch_result' = "ok" /\ HasBadEntry(cache_file'.content)
        /\ Call) =>
       /\ cycle' = "raised"
       /\ UNCHANGED <<fu_outages, feedUpdated, temp_file, parsed_file>>
       /\ ~temp_file'.exists]_vars

\* A feed with a well-formed entry followed by a malformed one was fetched
\* with a non-empty snapshot in place.
C23_Witness ==
  /\ cycle = "raised"
  /\ fetch_result = "ok"
  /\ cache_file.content = <<GoodEvent, BadEvent>>
  /\ parsed_file.exists
  /\ parsed_file.content # <<>>

\* C24: after a cycle of createCache( True ) whose fetch answered, the RSS
\* cache was normalized by the syndication parser and by no other: the
\* cycle returned, and its records are those of parseOutagesXML( 0 ), with
\* the times parseDateHTML reads in each description and a zero mod_time.
C24_RssUsesSyndicationParser ==
  (rss_cache_file.exists /\ fetch_result = "ok") =>
    /\ parser_applied = "parseOutagesXML"
    /\ cycle = "returned"
    /\ fu_outages = parseOutagesXML_RSS(rss_cache_file, year_now)

\* C27: at every point of the widget's run at most one poll timer is
\* pending, whatever the number of left clicks.
C27_AtMostOneTimer == timers <= 1

Stage(buckets, t) ==
  LET o == outages[1]
  IN IF InSeq(o, buckets.scheduled) THEN 1
     ELSE IF InSeq(o, buckets.active) THEN 2
     ELSE IF InSeq(o, buckets.completed) THEN 3
     ELSE IF t < o.start_time THEN 0
     ELSE 4
StageBefore == Stage(prev.sorted_outages, prev.now)
StageNow == Stage(sorted_outages, now)

\* C28 as stated: from one poll to the next the outcome never moves back,
\* never goes from scheduled to completed and is never the integrity
\* error; without an end, active stays active.
C28_StatusMovesForward ==
  (pc = "called" => raised_at = 0)
    /\ (pc = "called" /\ prev.called) =>
         /\ StageBefore <= StageNow
         /\ ~(StageBefore = 1 /\ StageNow = 3)
         /\ (outages[1].end_time = 0 /\ StageBefore = 2) => StageNow = 2

\* C28, amended: the same, with scheduled followed by completed excluded
\* only for two polls no further apart than the outage lasts.
C28_StatusMovesForwardNoGap ==
  (pc = "called" => raised_at = 0)
    /\ (pc = "called" /\ prev.called) =>
         /\ StageBefore <= StageNow
         /\ (StageBefore = 1 /\ StageNow = 3)
              => now - prev.now > outages[1].end_time - outages[1].start_time
         /\ (outages[1].end_time = 0 /\ StageBefore = 2) => StageNow = 2

\* An outage polled while scheduled and, one instant later, while active.
C28_Witness ==
  /\ pc = "called"
  /\ prev.called
  /\ now = prev.now + 1
  /\ StageBefore = 1
  /\ StageNow = 2
  /\ outages[1].end_time # 0

\* What the widget would display now: the snapshot classified at the
\* present time.
CurrentBuckets ==
  sortOutagesByStatus(parseOutagesXML(parsed_file), clock).sorted_outages

\* C30: whenever the buckets the widget displayed last differ from the
\* present classification of the unchanged snapshot, a later timer poll
\* displays the present classification.
C30_TimeChangeIsDisplayed ==
  (widget = "done" /\ shown # CurrentBuckets) ~> (shown = CurrentBuckets)

====
